---- MODULE Spec2Model ----
(***************************************************************************)
(* Model of the nametag tag codec (src/src/lib.rs): a file name is parsed  *)
(* into prefix, tag set and suffix, the tag set is mutated, and the name   *)
(* is serialized again.  Bytes are the integers 0..255, byte strings are   *)
(* sequences of bytes, and indices into byte strings are 0-based as in the *)
(* source (Slice converts to the 1-based sequences of TLA+).               *)
(***************************************************************************)
EXTENDS Integers, Sequences, FiniteSets, TLC

VARIABLES input, phase, bounds, prefix, suffix, tags, out, res, nops, last

vars == <<input, phase, bounds, prefix, suffix, tags, out, res, nops, last>>

\* ---------------------------------------------------------------- constants
OPEN_BRACE == 91
CLOSE_BRACE == 93
DOT == 46
SPACE == 32
COMMA == 44

\* range of `level`, which the compiler infers to be an i32
I32_MAX == 2147483647
I32_MIN == -I32_MAX - 1

\* ------------------------------------------------------------------- bounds
MaxLen == 3
MaxParseLen == 5
MaxOps == 2

\* input bytes: the five delimiters, tab (9), 'a' (97) and 'b' (98)
Alphabet == {OPEN_BRACE, CLOSE_BRACE, DOT, SPACE, COMMA, 9, 97, 98}
\* tag arguments: the empty tag, "a", and the byte 0xFF that is no valid UTF-8
TagArgs == {<<>>, <<97>>, <<255>>}

SeqsUpTo(S, n) == UNION {[1..k -> S] : k \in 0..n}

\* ------------------------------------------------------------ byte strings
\* data[lo..hi] of the source: 0-based, half open
Slice(data, lo, hi) == SubSeq(data, lo + 1, hi)

\* the range check Rust performs on data[lo..hi]; a failed check panics
SliceOK(data, lo, hi) == lo <= hi /\ hi <= Len(data)

\* Ord of Vec<u8>: lexicographic by byte, a proper prefix is smaller
RECURSIVE LexLess(_, _)
LexLess(a, b) ==
    IF b = <<>> THEN FALSE
    ELSE IF a = <<>> THEN TRUE
    ELSE IF Head(a) # Head(b) THEN Head(a) < Head(b)
    ELSE LexLess(Tail(a), Tail(b))

\* --------------------------------------------------- BTreeSet<Tag> as the
\* sequence of its members in iteration order
BTreeNew == <<>>

BTreeContains(set, tag) == \E i \in 1..Len(set) : set[i] = tag

BTreeInsertUnordered(set, tag) ==
    IF BTreeContains(set, tag) THEN set ELSE Append(set, tag)

BTreeInsert(set, tag) ==
    IF BTreeContains(set, tag) THEN set
    ELSE LET k == Cardinality({i \in 1..Len(set) : LexLess(set[i], tag)})
         IN SubSeq(set, 1, k) \o <<tag>> \o SubSeq(set, k + 1, Len(set))

BTreeRemove(set, tag) == SelectSeq(set, LAMBDA t : t # tag)

BTreeClear(set) == <<>>

\* ------------------------------------------------------------ get_tag_bounds
\* panic = TRUE stands for the panic "attempt to add with overflow"
None == [some |-> FALSE, upper |-> 0, lower |-> 0, panic |-> FALSE]
Some(u, l) == [some |-> TRUE, upper |-> u, lower |-> l, panic |-> FALSE]
Overflow == [some |-> FALSE, upper |-> 0, lower |-> 0, panic |-> TRUE]

\* level + delta, delta in {-1, 0, 1}, leaves the range of i32
OverflowsI32(level, delta) ==
    (delta = 1 /\ level = I32_MAX) \/ (delta = -1 /\ level = I32_MIN)

\* level + delta modulo 2^32, as the release build computes it
WrappingAdd(level, delta) ==
    IF OverflowsI32(level, delta)
    THEN (IF delta = 1 THEN I32_MIN ELSE I32_MAX)
    ELSE level + delta

\* one pass of the for loop at 0-based index i.  `level += ...` is checked
\* arithmetic when the build has overflow checks (checks = TRUE, the debug
\* profile) and wraps otherwise (the release profile).
RECURSIVE tag_bounds_loop(_, _, _, _, _, _)
tag_bounds_loop(data, i, level, last_level, upper_bound, checks) ==
    IF i >= Len(data) THEN None
    ELSE LET ch == data[i + 1]
             delta == IF ch = OPEN_BRACE THEN 1
                      ELSE IF ch = CLOSE_BRACE THEN -1 ELSE 0
             lvl == WrappingAdd(level, delta)
             ub == IF last_level < lvl THEN i ELSE upper_bound
         IN IF OverflowsI32(level, delta) /\ checks THEN Overflow
            ELSE IF last_level > lvl THEN Some(ub, i + 1)
            ELSE tag_bounds_loop(data, i + 1, lvl, lvl, ub, checks)

RECURSIVE tag_bounds_loop_eof(_, _, _, _, _)
tag_bounds_loop_eof(data, i, level, last_level, upper_bound) ==
    IF i >= Len(data)
    THEN IF level > 0 THEN Some(upper_bound, Len(data)) ELSE None
    ELSE LET ch == data[i + 1]
             lvl == level + (IF ch = OPEN_BRACE THEN 1
                             ELSE IF ch = CLOSE_BRACE THEN -1 ELSE 0)
             ub == IF last_level < lvl THEN i ELSE upper_bound
         IN IF last_level > lvl THEN Some(ub, i + 1)
            ELSE tag_bounds_loop_eof(data, i + 1, lvl, lvl, ub)

\* the outermost pair: upper where the level leaves 0, lower where it is back
RECURSIVE tag_bounds_loop_outer(_, _, _, _, _)
tag_bounds_loop_outer(data, i, level, last_level, upper_bound) ==
    IF i >= Len(data) THEN None
    ELSE LET ch == data[i + 1]
             lvl == level + (IF ch = OPEN_BRACE THEN 1
                             ELSE IF ch = CLOSE_BRACE THEN -1 ELSE 0)
             ub == IF last_level = 0 /\ lvl = 1 THEN i ELSE upper_bound
         IN IF last_level > lvl /\ lvl <= 0 THEN Some(ub, i + 1)
            ELSE tag_bounds_loop_outer(data, i + 1, lvl, lvl, ub)

get_tag_bounds_outer(data, checks) == tag_bounds_loop_outer(data, 0, 0, 0, 0)

get_tag_bounds_eof(data, checks) == tag_bounds_loop_eof(data, 0, 0, 0, 0)

get_tag_bounds(data, checks) == tag_bounds_loop(data, 0, 0, 0, 0, checks)

\* ------------------------------------------------------------- get_ext_bound
RECURSIVE ext_bound_loop(_, _)
ext_bound_loop(data, i) ==
    IF i >= Len(data) THEN Len(data)
    ELSE IF data[i + 1] = DOT THEN i
    ELSE ext_bound_loop(data, i + 1)

RECURSIVE ext_bound_last(_, _)
ext_bound_last(data, i) ==
    IF i = 0 THEN Len(data)
    ELSE IF data[i] = DOT THEN i - 1
    ELSE ext_bound_last(data, i - 1)

get_ext_bound_last(data) == ext_bound_last(data, Len(data))

get_ext_bound(data) == ext_bound_loop(data, 0)

\* ---------------------------------------------------------------- parse_tags
RECURSIVE parse_tags_loop(_, _, _, _)
parse_tags_loop(set, data, i, buffer) ==
    IF i > Len(data)
    THEN IF 0 < Len(buffer) THEN BTreeInsert(set, buffer) ELSE set
    ELSE IF data[i] = COMMA \/ data[i] = SPACE
         THEN IF Len(buffer) # 0
              THEN parse_tags_loop(BTreeInsert(set, buffer), data, i + 1, <<>>)
              ELSE parse_tags_loop(set, data, i + 1, buffer)
         ELSE parse_tags_loop(set, data, i + 1, Append(buffer, data[i]))

RECURSIVE parse_tags_noflush_loop(_, _, _, _)
parse_tags_noflush_loop(set, data, i, buffer) ==
    IF i > Len(data) THEN set
    ELSE IF data[i] = COMMA \/ data[i] = SPACE
         THEN IF Len(buffer) # 0
              THEN parse_tags_noflush_loop(BTreeInsert(set, buffer), data, i + 1, <<>>)
              ELSE parse_tags_noflush_loop(set, data, i + 1, buffer)
         ELSE parse_tags_noflush_loop(set, data, i + 1, Append(buffer, data[i]))

parse_tags_noflush(set, data) == parse_tags_noflush_loop(set, data, 1, <<>>)

parse_tags(set, data) == parse_tags_loop(set, data, 1, <<>>)

\* ---------------------------------------------------------------------- new
\* ok = FALSE stands for a panic: an out-of-range slice, or the overflow of
\* level in get_tag_bounds
Panicked(b) ==
    [ok |-> FALSE, bounds |-> b, prefix |-> <<>>, suffix |-> <<>>, tags |-> <<>>]

new(data, checks) ==
    LET b == get_tag_bounds(data, checks)
    IN IF b.panic THEN Panicked(b)
       ELSE IF b.some
       THEN IF SliceOK(data, b.upper + 1, b.lower - 1)
               /\ SliceOK(data, 0, b.upper)
               /\ SliceOK(data, b.lower, Len(data))
            THEN [ok |-> TRUE,
                  bounds |-> b,
                  prefix |-> Slice(data, 0, b.upper),
                  suffix |-> Slice(data, b.lower, Len(data)),
                  tags |-> parse_tags(BTreeNew, Slice(data, b.upper + 1, b.lower - 1))]
            ELSE Panicked(b)
       ELSE LET split == get_ext_bound(data)
            IN [ok |-> TRUE,
                bounds |-> b,
                prefix |-> Slice(data, 0, split),
                suffix |-> Slice(data, split, Len(data)),
                tags |-> BTreeNew]

\* ------------------------------------------------ From<NameTag> for Vec<u8>
\* the flat_map over the enumerated tags: every tag but the last is followed
\* by one SPACE
RECURSIVE flat_map_tags(_, _, _)
flat_map_tags(set, i, tag_len) ==
    IF i >= tag_len THEN <<>>
    ELSE (IF i + 1 = tag_len THEN set[i + 1] ELSE set[i + 1] \o <<SPACE>>)
         \o flat_map_tags(set, i + 1, tag_len)

into_bytes(p, s, set) ==
    LET tag_len == Len(set)
    IN IF tag_len = 0 THEN p \o s
       ELSE p \o <<OPEN_BRACE>> \o flat_map_tags(set, 0, tag_len)
              \o <<CLOSE_BRACE>> \o s

\* ------------------------------------------------------- String::from_utf8
IsCont(b) == 128 <= b /\ b <= 191

RECURSIVE from_utf8_ok(_)
from_utf8_ok(v) ==
    IF v = <<>> THEN TRUE
    ELSE LET b == v[1]
             n == Len(v)
         IN IF b < 128 THEN from_utf8_ok(Tail(v))
            ELSE IF 194 <= b /\ b <= 223
                 THEN n >= 2 /\ IsCont(v[2]) /\ from_utf8_ok(SubSeq(v, 3, n))
            ELSE IF 224 <= b /\ b <= 239
                 THEN n >= 3
                      /\ (IF b = 224 THEN 160 <= v[2] /\ v[2] <= 191
                          ELSE IF b = 237 THEN 128 <= v[2] /\ v[2] <= 159
                          ELSE IsCont(v[2]))
                      /\ IsCont(v[3]) /\ from_utf8_ok(SubSeq(v, 4, n))
            ELSE IF 240 <= b /\ b <= 244
                 THEN n >= 4
                      /\ (IF b = 240 THEN 144 <= v[2] /\ v[2] <= 191
                          ELSE IF b = 244 THEN 128 <= v[2] /\ v[2] <= 143
                          ELSE IsCont(v[2]))
                      /\ IsCont(v[3]) /\ IsCont(v[4])
                      /\ from_utf8_ok(SubSeq(v, 5, n))
            ELSE FALSE

\* ------------------------------------------------------------------ actions
\* phase: "unparsed" before NameTag::new, "live" while the caller owns the
\* instance, "panicked" when new panicked, "consumed" once the instance was
\* moved into a conversion.  res/out: the kind and bytes of the conversion's
\* return value.  bounds: what get_tag_bounds returned inside new.  nops/last: number of mutating calls and the last of them.
NoOp == <<"none", <<>>>>

InitCommon ==
    /\ phase = "unparsed"
    /\ bounds = None
    /\ prefix = <<>>
    /\ suffix = <<>>
    /\ tags = <<>>
    /\ out = <<>>
    /\ res = "none"
    /\ nops = 0
    /\ last = NoOp

Init == input \in SeqsUpTo(Alphabet, MaxLen) /\ InitCommon

InitParse == input \in SeqsUpTo(Alphabet, MaxParseLen) /\ InitCommon

\* the build profile decides what an overflow of level does
New ==
    /\ phase = "unparsed"
    /\ \E checks \in BOOLEAN :
         LET r == new(input, checks)
         IN /\ bounds' = r.bounds
            /\ IF r.ok
               THEN /\ phase' = "live"
                    /\ prefix' = r.prefix
                    /\ suffix' = r.suffix
                    /\ tags' = r.tags
               ELSE /\ phase' = "panicked"
                    /\ UNCHANGED <<prefix, suffix, tags>>
    /\ UNCHANGED <<input, out, res, nops, last>>

add_tag(tag) ==
    /\ phase = "live"
    /\ nops < MaxOps
    /\ tags' = BTreeInsert(tags, tag)
    /\ nops' = nops + 1
    /\ last' = <<"add", tag>>
    /\ UNCHANGED <<input, phase, bounds, prefix, suffix, out, res>>

remove_tag(tag) ==
    /\ phase = "live"
    /\ nops < MaxOps
    /\ tags' = BTreeRemove(tags, tag)
    /\ nops' = nops + 1
    /\ last' = <<"remove", tag>>
    /\ UNCHANGED <<input, phase, bounds, prefix, suffix, out, res>>

clear_tags ==
    /\ phase = "live"
    /\ nops < MaxOps
    /\ tags' = BTreeClear(tags)
    /\ nops' = nops + 1
    /\ last' = <<"clear", <<>>>>
    /\ UNCHANGED <<input, phase, bounds, prefix, suffix, out, res>>

\* Vec::<u8>::from(nametag): takes the instance by value
IntoBytesKeep ==
    /\ phase = "live"
    /\ out' = into_bytes(prefix, suffix, tags)
    /\ res' = "bytes"
    /\ UNCHANGED <<input, phase, bounds, prefix, suffix, tags, nops, last>>

IntoBytes ==
    /\ phase = "live"
    /\ out' = into_bytes(prefix, suffix, tags)
    /\ res' = "bytes"
    /\ phase' = "consumed"
    /\ UNCHANGED <<input, bounds, prefix, suffix, tags, nops, last>>

\* String::try_from(nametag): takes the instance by value; the error carries
\* no bytes
TryIntoString ==
    /\ phase = "live"
    /\ LET b == into_bytes(prefix, suffix, tags)
       IN IF from_utf8_ok(b)
          THEN res' = "ok" /\ out' = b
          ELSE res' = "err" /\ out' = <<>>
    /\ phase' = "consumed"
    /\ UNCHANGED <<input, bounds, prefix, suffix, tags, nops, last>>

AddTag == \E t \in TagArgs : add_tag(t)
RemoveTag == \E t \in TagArgs : remove_tag(t)

Next ==
    \/ New
    \/ AddTag
    \/ RemoveTag
    \/ clear_tags
    \/ IntoBytes
    \/ TryIntoString

Spec == Init /\ [][Next]_vars

NextParse ==
    \/ New
    \/ IntoBytes
    \/ TryIntoString

SpecParse == InitParse /\ [][NextParse]_vars

\* ------------------------------------------------- vocabulary of the claims
SetOf(seq) == {seq[i] : i \in 1..Len(seq)}

Count(data, k, byte) == Cardinality({i \in 1..k : data[i] = byte})

\* bracket depth after the first k bytes
Depth(data, k) == Count(data, k, OPEN_BRACE) - Count(data, k, CLOSE_BRACE)

\* the depth is back at 0 at some point after having been positive
HasSegment(data) ==
    \E j \in 1..Len(data) :
        Depth(data, j) = 0 /\ \E i \in 1..(j - 1) : Depth(data, i) > 0

\* an opened bracket that is never balanced back to depth 0
UnbalancedOpen(data) ==
    (\E i \in 1..Len(data) : Depth(data, i) > 0) /\ ~HasSegment(data)

NoCloseBrace(data) == \A i \in 1..Len(data) : data[i] # CLOSE_BRACE

ProperlyNested(data) ==
    /\ \A k \in 0..Len(data) : Depth(data, k) >= 0
    /\ Depth(data, Len(data)) = 0
    /\ \E i \in 1..Len(data) : data[i] = OPEN_BRACE

\* 1-based position of the first ']' and of the last '[' before position j
FirstClose(data) ==
    CHOOSE j \in 1..Len(data) :
        data[j] = CLOSE_BRACE /\ \A m \in 1..(j - 1) : data[m] # CLOSE_BRACE

LastOpenBefore(data, j) ==
    CHOOSE i \in 1..(j - 1) :
        data[i] = OPEN_BRACE /\ \A m \in (i + 1)..(j - 1) : data[m] # OPEN_BRACE

\* maximal non-empty runs of bytes of seg outside seps
Tokens(seg, seps) ==
    {SubSeq(seg, i, j) : <<i, j>> \in
        {p \in (1..Len(seg)) \X (1..Len(seg)) :
            /\ p[1] <= p[2]
            /\ \A m \in p[1]..p[2] : seg[m] \notin seps
            /\ (p[1] = 1 \/ seg[p[1] - 1] \in seps)
            /\ (p[2] = Len(seg) \/ seg[p[2] + 1] \in seps)}}

Whitespace == {9, 10, 11, 12, 13, 32}
WhitespaceOrComma == Whitespace \cup {COMMA}
SpaceOrComma == {SPACE, COMMA}

\* byte order on tags, and the members of a set of tags in ascending order
RECURSIVE ByteLeq(_, _)
ByteLeq(a, b) ==
    \/ a = <<>>
    \/ b # <<>> /\ (a[1] < b[1] \/ (a[1] = b[1] /\ ByteLeq(Tail(a), Tail(b))))

RECURSIVE Ascending(_)
Ascending(S) ==
    IF S = {} THEN <<>>
    ELSE LET m == CHOOSE x \in S : \A y \in S : ByteLeq(x, y)
         IN <<m>> \o Ascending(S \ {m})

RECURSIVE JoinSpace(_)
JoinSpace(ts) ==
    IF ts = <<>> THEN <<>>
    ELSE IF Len(ts) = 1 THEN ts[1]
    ELSE ts[1] \o <<SPACE>> \o JoinSpace(Tail(ts))

\* the bracket form of a set of tags, nothing for the empty set
BracketForm(S) ==
    IF S = {} THEN <<>>
    ELSE <<OPEN_BRACE>> \o JoinSpace(Ascending(S)) \o <<CLOSE_BRACE>>

\* number of bytes before the first '.', or the length when there is none
FirstDotOrEnd(data) ==
    IF \E i \in 1..Len(data) : data[i] = DOT
    THEN (CHOOSE i \in 1..Len(data) :
             data[i] = DOT /\ \A m \in 1..(i - 1) : data[m] # DOT) - 1
    ELSE Len(data)

Parsed == phase \in {"live", "consumed"}

\* the bracket segment handed to parse_tags
Segment == Slice(input, bounds.upper + 1, bounds.lower - 1)

\* ------------------------------------------------------------------- claims

\* C1: an input without bracket segment (the depth never returns to 0 after
\* having been positive), parsed and serialized with no mutation, comes back
\* byte for byte.
C1_RoundTrip ==
    (~HasSegment(input) /\ res = "bytes" /\ nops = 0) => out = input

\* C2: NameTag::new and the mutating operations never fail, whatever the
\* input bytes.
C2_Total == phase # "panicked"

\* C3: into_bytes returns prefix ++ suffix for an empty tag set and otherwise
\* prefix ++ '[' ++ the tags in ascending byte order joined by one space
\* ++ ']' ++ suffix, whatever order the tags were parsed or added in.
C3_Canonical ==
    res = "bytes" => out = prefix \o BracketForm(SetOf(tags)) \o suffix

C3_Witness ==
    /\ res = "bytes"
    /\ last[1] = "add"
    /\ Len(tags) >= 2
    /\ tags[Len(tags)] # last[2]
    /\ last[2] \in SetOf(tags)

\* C4 as stated: an input whose opened '[' is never balanced back to depth 0
\* has no span, an empty tag set, and serializes unmodified.
C4_UnbalancedUntouched ==
    (UnbalancedOpen(input) /\ Parsed /\ nops = 0)
        => /\ ~bounds.some
           /\ tags = <<>>
           /\ (res = "bytes" => out = input)

\* the first ']' byte comes after a '[' byte
CloseAfterOpen(data) ==
    /\ ~NoCloseBrace(data)
    /\ \E i \in 1..(FirstClose(data) - 1) : data[i] = OPEN_BRACE

\* C4 amended: of the inputs with at most 2^31 - 1 '[' bytes (the range of
\* the i32 level), one without any ']' byte has no span, an empty tag set and
\* serializes unmodified, and one whose first ']' comes after a '[' has the
\* span from the last '[' before that ']' up to that ']', whether or not the
\* depth is back at 0 there: the tokens of the span are the tags and the
\* bytes outside it are prefix and suffix.
C4_SpanAtFirstClose ==
    (Count(input, Len(input), OPEN_BRACE) <= I32_MAX
        /\ phase # "unparsed" /\ nops = 0)
        => /\ NoCloseBrace(input)
                => /\ phase # "panicked"
                   /\ ~bounds.some
                   /\ tags = <<>>
                   /\ (res = "bytes" => out = input)
           /\ CloseAfterOpen(input)
                => LET j == FirstClose(input)
                       i == LastOpenBefore(input, j)
                   IN /\ phase # "panicked"
                      /\ bounds = Some(i - 1, j)
                      /\ prefix = SubSeq(input, 1, i - 1)
                      /\ suffix = SubSeq(input, j + 1, Len(input))
                      /\ SetOf(tags)
                            = Tokens(SubSeq(input, i + 1, j - 1), SpaceOrComma)
                      /\ (res = "bytes" =>
                            out = SubSeq(input, 1, i - 1)
                                    \o BracketForm(SetOf(tags))
                                    \o SubSeq(input, j + 1, Len(input)))

\* an opened '[' never balanced back to depth 0, and yet a span with a tag
C4_Witness ==
    /\ UnbalancedOpen(input)
    /\ CloseAfterOpen(input)
    /\ bounds.some
    /\ tags # <<>>
    /\ res = "bytes"
    /\ OPEN_BRACE \in SetOf(prefix)

\* C5: for a properly nested input the tag segment is the pair from the last
\* '[' before the first ']' up to that ']'; its tokens are the tags and every
\* byte outside it is kept in prefix and suffix.
C5_Innermost ==
    (ProperlyNested(input) /\ Parsed /\ nops = 0)
        => LET j == FirstClose(input)
               i == LastOpenBefore(input, j)
           IN /\ prefix = SubSeq(input, 1, i - 1)
              /\ suffix = SubSeq(input, j + 1, Len(input))
              /\ SetOf(tags) = Tokens(SubSeq(input, i + 1, j - 1), SpaceOrComma)
              /\ (res = "bytes" =>
                    out = SubSeq(input, 1, i - 1) \o BracketForm(SetOf(tags))
                            \o SubSeq(input, j + 1, Len(input)))

C5_Witness ==
    /\ ProperlyNested(input)
    /\ \E k \in 1..Len(input) : Depth(input, k) >= 2
    /\ res = "bytes"
    /\ tags # <<>>
    /\ OPEN_BRACE \in SetOf(prefix)
    /\ CLOSE_BRACE \in SetOf(suffix)

\* C6 as stated: the parsed tags are the maximal runs of bytes that are
\* neither whitespace nor comma, and no tag holds a whitespace or comma byte.
C6_WhitespaceSplit ==
    (Parsed /\ nops = 0 /\ bounds.some)
        => /\ SetOf(tags) = Tokens(Segment, WhitespaceOrComma)
           /\ \A i \in 1..Len(tags) :
                 \A m \in 1..Len(tags[i]) : tags[i][m] \notin WhitespaceOrComma

\* C6 amended: the parsed tags are the maximal runs of bytes that are neither
\* the space byte nor the comma byte, and no tag holds a space or a comma.
C6_SpaceCommaSplit ==
    (Parsed /\ nops = 0 /\ bounds.some)
        => /\ SetOf(tags) = Tokens(Segment, SpaceOrComma)
           /\ \A i \in 1..Len(tags) :
                 /\ tags[i] # <<>>
                 /\ \A m \in 1..Len(tags[i]) : tags[i][m] \notin SpaceOrComma

C6_Witness ==
    /\ phase = "live"
    /\ nops = 0
    /\ bounds.some
    /\ tags # <<>>
    /\ \E m \in 1..Len(Segment) : Segment[m] \in SpaceOrComma

\* C7: the tag set never holds two equal tags and never holds the empty tag.
C7_TagSetInvariant ==
    Parsed => /\ \A i, j \in 1..Len(tags) : tags[i] = tags[j] => i = j
              /\ \A i \in 1..Len(tags) : tags[i] # <<>>

\* C8: an input in which no span is recognized, after a single add_tag(t),
\* serializes to input[..k] ++ '[' ++ t ++ ']' ++ input[k..] with k the index
\* of the first '.', or the length of the input.
C8_InsertionPoint ==
    \A t \in TagArgs :
        (Parsed /\ ~bounds.some /\ nops = 1 /\ last = <<"add", t>>
            /\ res = "bytes")
            => LET k == FirstDotOrEnd(input)
               IN out = SubSeq(input, 1, k) \o <<OPEN_BRACE>> \o t
                          \o <<CLOSE_BRACE>> \o SubSeq(input, k + 1, Len(input))

C8_Witness ==
    /\ ~bounds.some
    /\ nops = 1
    /\ last = <<"add", <<97>>>>
    /\ res = "bytes"
    /\ FirstDotOrEnd(input) > 0
    /\ FirstDotOrEnd(input) + 1 < Len(input)

\* C9 as stated: after a conversion returned, with bytes, text or an error,
\* the instance still exists and a following into_bytes is possible.
C9_InstanceSurvives == res # "none" => (phase = "live" /\ ENABLED IntoBytes)

\* C9 amended: a conversion consumes the instance: once into_bytes or
\* try_into_string has returned, no operation on the instance is possible;
\* the bytes returned are the serialization of the prefix, suffix and tag set
\* the instance held, and a failed text conversion returns no bytes.
C9_Consumed ==
    res # "none"
        => /\ phase = "consumed"
           /\ ~ENABLED Next
           /\ (res \in {"bytes", "ok"} =>
                 out = prefix \o BracketForm(SetOf(tags)) \o suffix)
           /\ (res = "err" => out = <<>>)

C9_Witness == res = "err" /\ phase = "consumed" /\ nops > 0

\* C10: serializing an unmutated parse gives bytes that parse and serialize
\* to themselves.
C10_Idempotent ==
    (res = "bytes" /\ nops = 0)
        => \A checks \in BOOLEAN :
              LET r == new(out, checks)
              IN r.ok /\ into_bytes(r.prefix, r.suffix, r.tags) = out
====
